---- MODULE Spec2Model ----
(***************************************************************************)
(* A model of the Flash repository: the document chunker and its CSV       *)
(* snapshot, the flashcard parser and generator, the FastAPI handlers      *)
(* /ask and /flashcards, the process-wide pipeline singletons, and the     *)
(* Gradio chat client of /ask.                                             *)
(*                                                                         *)
(* The module holds several specifications, one per subsystem.  Each one   *)
(* runs its own actions and leaves the other subsystems' variables at      *)
(* their initial values:                                                   *)
(*   SpecChunk    DocumentChunking.create_chunks / create_chunks_in_memory *)
(*   SpecParse    FlashcardPipeline._parse_flashcards on model replies     *)
(*   SpecRequest  the handlers of POST /ask and POST /flashcards, one      *)
(*                request after the other                                  *)
(*   SpecServer   the process: the startup hook, the lru_cache singletons  *)
(*                and concurrently handled requests                        *)
(*   SpecClient   the chat client: _chat_response called turn after turn   *)
(*                against the /ask handler over a network that may fail    *)
(***************************************************************************)
EXTENDS Integers, Sequences, FiniteSets, TLC

VARIABLES
    chunks_dir,     \* TRUE iff the directory config.chunks_dir exists on disk
    chunks_file,    \* the file config.chunks_file: [exists, lines]
    ret,            \* the most recent chunker call and what it returned or raised
    lastGood        \* history: the chunk list returned by the most recent
                    \* create_chunks call that returned normally, and whether
                    \* a later call failed while writing the file (torn)

VARIABLES
    reply,          \* a language-model reply: leading prose, body, trailing prose
    parse           \* what _parse_flashcards made of it: [done, out]

VARIABLES
    served,         \* number of HTTP requests handled so far
    tmp_files,      \* the temporary upload files that exist on disk
    exchange        \* the most recent request and the response it got

VARIABLES
    startup,        \* the process: [phase, next], phase "warming" (the startup
                    \* hook is at its call number next), "serving" or "failed"
    cache,          \* the lru_cache of get_pipeline and get_flashcard_pipeline
    built,          \* how many RAGPipeline / FlashcardPipeline were constructed
    threads         \* the requests being handled: [kind, pc, mine, pipeline]

VARIABLES
    chatbot,        \* the value of the gr.Chatbot component: the conversation
    turns,          \* number of submitted messages so far
    chat            \* the most recent _chat_response call and its outcome

chunkVars == <<chunks_dir, chunks_file, ret, lastGood>>

parseVars == <<reply, parse>>

requestVars == <<served, tmp_files, exchange>>

serverVars == <<startup, cache, built, threads>>

clientVars == <<chatbot, turns, chat>>

vars == <<chunks_dir, chunks_file, ret, lastGood, reply, parse,
          served, tmp_files, exchange, startup, cache, built, threads,
          chatbot, turns, chat>>

nonChunkVars == <<parseVars, requestVars, serverVars, clientVars>>

nonParseVars == <<chunkVars, requestVars, serverVars, clientVars>>

nonRequestVars == <<chunkVars, parseVars, serverVars, clientVars>>

nonServerVars == <<chunkVars, parseVars, requestVars, clientVars>>

nonClientVars == <<chunkVars, parseVars, requestVars, serverVars>>

(***************************************************************************)
(* Bounds of the model.                                                    *)
(***************************************************************************)
MaxDocs == 2        \* documents handed to one chunker call
MaxItems == 2       \* entries of the "cards" list of a model reply
MaxRequests == 2    \* HTTP requests handled in one behaviour
MaxThreads == 3     \* requests handled concurrently by the process
MaxTurns == 2       \* messages submitted to the chat client

(***************************************************************************)
(* Small helpers on sequences.                                             *)
(***************************************************************************)
RECURSIVE Flatten(_)
Flatten(ss) == IF ss = <<>> THEN <<>> ELSE Head(ss) \o Flatten(Tail(ss))

SeqsUpTo(S, n) == UNION {[1..k -> S] : k \in 0..n}

(***************************************************************************)
(* Documents (langchain_core Document): page_content and a metadata        *)
(* mapping.  A key that the mapping does not hold is written NoKey.        *)
(***************************************************************************)
NoKey == "<no key>"

\* The documents the model feeds the chunker: an empty page (a scanned page
\* with no extractable text), a text longer than chunk_size, and a short text
\* whose metadata holds neither "source" nor "doc_type".
Documents ==
    { [page_content |-> "",
       metadata |-> [source |-> "a.pdf", doc_type |-> "product_terms"]],
      [page_content |-> "fees and charges",
       metadata |-> [source |-> "a.pdf", doc_type |-> "product_terms"]],
      [page_content |-> "rates",
       metadata |-> [source |-> NoKey, doc_type |-> NoKey]] }

DocumentLists == SeqsUpTo(Documents, MaxDocs)

\* dict.get(key, default)
MetadataGet(metadata, key, default) ==
    IF metadata[key] = NoKey THEN default ELSE metadata[key]

(***************************************************************************)
(* RecursiveCharacterTextSplitter(chunk_size, chunk_overlap): an external  *)
(* library.  split_text is given by its results on the texts of Documents: *)
(* an empty text yields no chunk, a text within chunk_size yields itself,  *)
(* a longer text yields overlapping windows.                               *)
(***************************************************************************)
split_text(text) ==
    CASE text = ""                 -> <<>>
      [] text = "rates"            -> <<"rates">>
      [] text = "fees and charges" -> <<"fees and", "and charges">>

\* split_documents: every document's chunks, in document order, each chunk
\* carrying its document's metadata.
split_documents(documents) ==
    Flatten([i \in 1..Len(documents) |->
        LET d == documents[i]
            pieces == split_text(d.page_content)
        IN  [j \in 1..Len(pieces) |->
                [page_content |-> pieces[j], metadata |-> d.metadata]]])

(***************************************************************************)
(* pandas: a DataFrame is its column labels and its rows; to_csv with      *)
(* index=False writes one header line (the column labels) and one line per *)
(* row.  A DataFrame built from a list of dicts takes its columns from the *)
(* dicts' keys, so an empty list gives a frame with no columns at all.     *)
(* The file is modelled at the level of CSV records: a line is the         *)
(* sequence of its fields.                                                 *)
(***************************************************************************)
SnapshotColumns == <<"text", "source", "doc_type">>

\* Mutant of EmptyDataFrame: the frame built without its columns argument.
EmptyDataFrame_NoColumns(columns) == [columns |-> <<>>, rows |-> <<>>]

\* pd.DataFrame(columns=[...]): no rows, the given columns
EmptyDataFrame(columns) == [columns |-> columns, rows |-> <<>>]

\* Mutant of ChunkRecord: the two metadata columns filled from each other's key.
ChunkRecord_Swapped(chunk) ==
    [text     |-> chunk.page_content,
     source   |-> MetadataGet(chunk.metadata, "doc_type", ""),
     doc_type |-> MetadataGet(chunk.metadata, "source", "")]

\* the dict comprehension of create_chunks, one dict per chunk
ChunkRecord(chunk) ==
    [text     |-> chunk.page_content,
     source   |-> MetadataGet(chunk.metadata, "source", ""),
     doc_type |-> MetadataGet(chunk.metadata, "doc_type", "")]

\* pd.DataFrame([dict, ...])
DataFrame(records) ==
    [columns |-> IF records = <<>> THEN <<>> ELSE SnapshotColumns,
     rows    |-> [i \in 1..Len(records) |->
                    <<records[i].text, records[i].source, records[i].doc_type>>]]

\* df.to_csv(path, index=False, header=True): the lines of the file
to_csv(df) == <<df.columns>> \o df.rows

NoFile == [exists |-> FALSE, lines |-> <<>>]

File(lines) == [exists |-> TRUE, lines |-> lines]

ChunksFilePath == "artifacts/chunks/chunks.csv"

(***************************************************************************)
(* DocumentChunking.create_chunks(documents).                              *)
(*                                                                         *)
(* fault names where the run fails, if it does:                            *)
(*   "split"     the splitter raises (before any I/O; not on empty input)  *)
(*   "makedirs"  os.makedirs raises                                        *)
(*   "open"      to_csv cannot open the file for writing                   *)
(*   "write"     to_csv fails after opening: the file is truncated by the  *)
(*               open and holds only the first `written` lines             *)
(* Every failure is caught and re-raised as CustomException.               *)
(***************************************************************************)
ChunkFaults == {"none", "split", "makedirs", "open", "write"}

\* the DataFrame create_chunks writes for `documents`
SnapshotFrame(documents) ==
    IF documents = <<>>
    THEN EmptyDataFrame(SnapshotColumns)
    ELSE LET chunks == split_documents(documents)
         IN  DataFrame([i \in 1..Len(chunks) |-> ChunkRecord(chunks[i])])

create_chunks(documents, fault, written) ==
    LET chunks == IF documents = <<>> THEN <<>> ELSE split_documents(documents)
        lines  == to_csv(SnapshotFrame(documents))
        raised == [op |-> "create_chunks", no_documents |-> (documents = <<>>),
                   raised |-> TRUE, value |-> "CustomException"]
    IN
    /\ fault = "split" => documents # <<>>
    /\ written \in 0..(Len(lines) - 1)
    /\ CASE fault = "split" ->
              /\ ret' = raised
              /\ UNCHANGED <<chunks_dir, chunks_file, lastGood>>
         [] fault = "makedirs" ->
              /\ ret' = raised
              /\ UNCHANGED <<chunks_dir, chunks_file, lastGood>>
         [] fault = "open" ->
              /\ chunks_dir' = TRUE
              /\ ret' = raised
              /\ UNCHANGED <<chunks_file, lastGood>>
         [] fault = "write" ->
              /\ chunks_dir' = TRUE
              /\ chunks_file' = File(SubSeq(lines, 1, written))
              /\ ret' = raised
              /\ lastGood' = [lastGood EXCEPT !.torn = TRUE]
         [] fault = "none" ->
              /\ chunks_dir' = TRUE
              /\ chunks_file' = File(lines)
              /\ ret' = [op |-> "create_chunks", no_documents |-> (documents = <<>>),
                         raised |-> FALSE,
                         value |-> <<ChunksFilePath, chunks>>]
              /\ lastGood' = [has |-> TRUE, chunks |-> chunks, torn |-> FALSE]

(***************************************************************************)
(* DocumentChunking.create_chunks_in_memory(documents): the same split,    *)
(* no file or directory is touched.                                        *)
(***************************************************************************)
create_chunks_in_memory(documents, fault) ==
    /\ fault \in {"none", "split"}
    /\ fault = "split" => documents # <<>>
    /\ ret' = IF fault = "split"
              THEN [op |-> "create_chunks_in_memory", no_documents |-> (documents = <<>>),
                    raised |-> TRUE, value |-> "CustomException"]
              ELSE [op |-> "create_chunks_in_memory", no_documents |-> (documents = <<>>),
                    raised |-> FALSE,
                    value |-> IF documents = <<>> THEN <<>>
                              ELSE split_documents(documents)]
    /\ UNCHANGED <<chunks_dir, chunks_file, lastGood>>

ChunkInit ==
    /\ chunks_dir = FALSE
    /\ chunks_file = NoFile
    /\ ret = [op |-> "none", no_documents |-> FALSE, raised |-> FALSE, value |-> <<>>]
    /\ lastGood = [has |-> FALSE, chunks |-> <<>>, torn |-> FALSE]

CreateChunks ==
    \E documents \in DocumentLists, fault \in ChunkFaults :
        \E written \in IF fault = "write"
                       THEN 0..(Len(to_csv(SnapshotFrame(documents))) - 1)
                       ELSE {0} :
            /\ create_chunks(documents, fault, written)
            /\ UNCHANGED nonChunkVars

CreateChunksInMemory ==
    \E documents \in DocumentLists, fault \in {"none", "split"} :
        /\ create_chunks_in_memory(documents, fault)
        /\ UNCHANGED nonChunkVars

ChunkNext == CreateChunks \/ CreateChunksInMemory


(***************************************************************************)
(* Text.  A Python string is modelled as the sequence of its pieces: a     *)
(* brace, a quote, a whitespace character and every other JSON punctuation *)
(* mark is a piece of its own; a run of other characters (a word, a        *)
(* sentence without braces) may be one piece.  str.find("{"), rfind("}")   *)
(* and slicing then act on pieces as they act on characters.               *)
(***************************************************************************)
Whitespace == {" ", "\n"}

\* str.find(c): the 0-based index of the first c, -1 when there is none
Find(s, c) ==
    IF \E i \in 1..Len(s) : s[i] = c
    THEN (CHOOSE i \in 1..Len(s) : s[i] = c /\ \A j \in 1..(i-1) : s[j] # c) - 1
    ELSE -1

\* str.rfind(c): the 0-based index of the last c, -1 when there is none
RFind(s, c) ==
    IF \E i \in 1..Len(s) : s[i] = c
    THEN (CHOOSE i \in 1..Len(s) : s[i] = c /\ \A j \in (i+1)..Len(s) : s[j] # c) - 1
    ELSE -1

\* s[a:b] for 0 <= a <= b <= len(s)
Slice(s, a, b) == SubSeq(s, a + 1, b)

\* str.strip(): whitespace removed from both ends
RECURSIVE LStrip(_)
LStrip(s) == IF s # <<>> /\ Head(s) \in Whitespace THEN LStrip(Tail(s)) ELSE s

RECURSIVE RStrip(_)
RStrip(s) ==
    IF s # <<>> /\ s[Len(s)] \in Whitespace THEN RStrip(SubSeq(s, 1, Len(s) - 1)) ELSE s

Strip(s) == RStrip(LStrip(s))

(***************************************************************************)
(* JSON values, as json.loads returns them: every value is [t, v] with t   *)
(* its Python type and v its content (the characters of a str, the items   *)
(* of a list, the <<key, value>> members of a dict).                       *)
(***************************************************************************)
JStr(chars)   == [t |-> "str",  v |-> chars]
JNull         == [t |-> "null", v |-> <<>>]
JNum(digits)  == [t |-> "num",  v |-> digits]
JArr(items)   == [t |-> "arr",  v |-> items]
JObj(members) == [t |-> "obj",  v |-> members]

Numbers == {"7"}

\* the JSON text of a value as a model writes it, without insignificant
\* whitespace; a newline inside a string is written as the escape \n
RECURSIVE Serialise(_)
RECURSIVE SerialiseAll(_, _)
SerialiseAll(vs, isMembers) ==
    IF vs = <<>> THEN <<>>
    ELSE (IF isMembers
          THEN Serialise(JStr(Head(vs)[1])) \o <<":">> \o Serialise(Head(vs)[2])
          ELSE Serialise(Head(vs)))
         \o (IF Len(vs) > 1 THEN <<",">> ELSE <<>>)
         \o SerialiseAll(Tail(vs), isMembers)
Serialise(value) ==
    CASE value.t = "str"  ->
            <<"\"">> \o [i \in 1..Len(value.v) |->
                          IF value.v[i] = "\n" THEN "\\n" ELSE value.v[i]]
                    \o <<"\"">>
      [] value.t = "null" -> <<"null">>
      [] value.t = "num"  -> value.v
      [] value.t = "arr"  -> <<"[">> \o SerialiseAll(value.v, FALSE) \o <<"]">>
      [] value.t = "obj"  -> <<"{">> \o SerialiseAll(value.v, TRUE) \o <<"}">>

\* the entries a model may put in the "cards" list
CardItems ==
    { JObj(<< << <<"question">>, JStr(<<"Q">>)>>, << <<"answer">>, JStr(<<"A">>)>> >>),
      JObj(<< << <<"question">>, JStr(<<" ", "Q2", "\n">>)>>,
              << <<"answer">>, JStr(<<" ", "A2">>)>> >>),
      JObj(<< << <<"question">>, JStr(<<>>)>>, << <<"answer">>, JStr(<<"A">>)>> >>),
      JObj(<< << <<"question">>, JStr(<<"Q">>)>>, << <<"answer">>, JStr(<<" ", "\n">>)>> >>),
      JObj(<< << <<"answer">>, JStr(<<"A">>)>> >>),
      JObj(<< << <<"question">>, JStr(<<"Q">>)>> >>),
      JObj(<< << <<"question">>, JNull>>, << <<"answer">>, JStr(<<"A">>)>> >>),
      JObj(<< << <<"question">>, JStr(<<"Q">>)>>, << <<"answer">>, JNum(<<"7">>)>> >>) }

CardsObjects == {JObj(<< << <<"cards">>, JArr(items)>> >>) : items \in SeqsUpTo(CardItems, MaxItems)}

\* the JSON documents of the model: the cards objects, an object without a
\* "cards" key, one whose "cards" is null, and a top-level list
JsonDocs ==
    CardsObjects \cup {JObj(<<>>), JObj(<< << <<"cards">>, JNull>> >>), JArr(<<>>)}

JSONDecodeError == [t |-> "JSONDecodeError", v |-> <<>>]

(***************************************************************************)
(* json.loads: a recursive-descent parser of JSON text.  A parse step      *)
(* gives [ok, val, rest]: whether a value was read, the value, and the     *)
(* text after it.                                                          *)
(***************************************************************************)
Fail == [ok |-> FALSE, val |-> JNull, rest |-> <<>>]

Ok(val, rest) == [ok |-> TRUE, val |-> val, rest |-> rest]

\* a string literal, read from just after its opening quote; a raw control
\* character inside it is an error (strict mode), a \n escape is a newline
ParseString(s) ==
    LET close == Find(s, "\"")
    IN  IF close = -1 THEN Fail
        ELSE LET body == Slice(s, 0, close)
             IN  IF \E i \in 1..Len(body) : body[i] = "\n" THEN Fail
                 ELSE Ok(JStr([i \in 1..Len(body) |->
                                IF body[i] = "\\n" THEN "\n" ELSE body[i]]),
                         Slice(s, close + 1, Len(s)))

RECURSIVE ParseValue(_)
RECURSIVE ParseElements(_, _)
RECURSIVE ParseMembers(_, _)
ParseValue(text) ==
    LET s == LStrip(text)
    IN  IF s = <<>> THEN Fail
        ELSE CASE Head(s) = "\""      -> ParseString(Tail(s))
               [] Head(s) = "null"    -> Ok(JNull, Tail(s))
               [] Head(s) \in Numbers -> Ok(JNum(<<Head(s)>>), Tail(s))
               [] Head(s) = "["       ->
                    LET t == LStrip(Tail(s))
                    IN  IF t # <<>> /\ Head(t) = "]"
                        THEN Ok(JArr(<<>>), Tail(t))
                        ELSE ParseElements(t, <<>>)
               [] Head(s) = "{"       ->
                    LET t == LStrip(Tail(s))
                    IN  IF t # <<>> /\ Head(t) = "}"
                        THEN Ok(JObj(<<>>), Tail(t))
                        ELSE ParseMembers(t, <<>>)
               [] OTHER               -> Fail
ParseElements(text, acc) ==
    LET r == ParseValue(text)
        t == LStrip(r.rest)
    IN  IF ~r.ok \/ t = <<>> THEN Fail
        ELSE IF Head(t) = "," THEN ParseElements(Tail(t), Append(acc, r.val))
        ELSE IF Head(t) = "]" THEN Ok(JArr(Append(acc, r.val)), Tail(t))
        ELSE Fail
ParseMembers(text, acc) ==
    LET s == LStrip(text)
    IN  IF s = <<>> \/ Head(s) # "\"" THEN Fail
        ELSE LET k == ParseString(Tail(s))
                 t == LStrip(k.rest)
             IN  IF ~k.ok \/ t = <<>> \/ Head(t) # ":" THEN Fail
                 ELSE LET r == ParseValue(Tail(t))
                          u == LStrip(r.rest)
                      IN  IF ~r.ok \/ u = <<>> THEN Fail
                          ELSE IF Head(u) = ","
                          THEN ParseMembers(Tail(u), Append(acc, <<k.val.v, r.val>>))
                          ELSE IF Head(u) = "}"
                          THEN Ok(JObj(Append(acc, <<k.val.v, r.val>>)), Tail(u))
                          ELSE Fail

\* json.loads(text): the value, or JSONDecodeError when the text is not one
\* JSON value (surrounding whitespace allowed)
json_loads(text) ==
    LET r == ParseValue(text)
    IN  IF r.ok /\ LStrip(r.rest) = <<>> THEN r.val ELSE JSONDecodeError

\* dict.get(key, default) on a JSON object (of a repeated key the last wins)
DictGet(obj, key, default) ==
    LET at == {i \in 1..Len(obj.v) : obj.v[i][1] = key}
    IN  IF at = {} THEN default
        ELSE obj.v[CHOOSE i \in at : \A j \in at : j <= i][2]

(***************************************************************************)
(* FlashcardPipeline._parse_flashcards(raw).  The outcome is               *)
(* [raised, cards]: raised is "" when the call returns, else the name of   *)
(* the exception that leaves it.                                           *)
(***************************************************************************)
Returns(cards) == [raised |-> "", cards |-> cards]

Raises(exc) == [raised |-> exc, cards |-> <<>>]

\* Mutant of ExtractJson: the slice stops before the closing brace.
ExtractJson_ExclusiveEnd(raw) ==
    LET start == Find(raw, "{")
        end   == RFind(raw, "}")
    IN  IF start # -1 /\ end # -1 /\ end > start
        THEN Slice(raw, start, end)
        ELSE raw

\* the text handed to json.loads: raw[start : end + 1] or raw itself
ExtractJson(raw) ==
    LET start == Find(raw, "{")
        end   == RFind(raw, "}")
    IN  IF start # -1 /\ end # -1 /\ end > start
        THEN Slice(raw, start, end + 1)
        ELSE raw

\* the body of the loop for a dict whose two values are strings
KeepCard(qv, av) ==
    LET q == Strip(qv.v)
        a == Strip(av.v)
    IN  IF q # <<>> /\ a # <<>> THEN <<[question |-> q, answer |-> a]>> ELSE <<>>

\* the loop over cards_raw; item.get needs a dict, .strip() needs a str
RECURSIVE FilterCards(_, _)
FilterCards(items, cards) ==
    IF items = <<>> THEN Returns(cards)
    ELSE LET item == Head(items)
         IN  IF item.t # "obj" THEN Raises("AttributeError")
             ELSE LET qv == DictGet(item, <<"question">>, JStr(<<>>))
                      av == DictGet(item, <<"answer">>, JStr(<<>>))
                  IN  IF qv.t # "str" \/ av.t # "str"
                      THEN Raises("AttributeError")
                      ELSE FilterCards(Tail(items), cards \o KeepCard(qv, av))

\* iterating cards_raw: a list gives its items, a str its characters, a dict
\* its keys (both as str values); None and numbers are not iterable
Iterate(value) ==
    CASE value.t = "arr" -> value.v
      [] value.t = "str" -> [i \in 1..Len(value.v) |-> JStr(<<value.v[i]>>)]
      [] value.t = "obj" -> [i \in 1..Len(value.v) |-> JStr(value.v[i][1])]

\* the function from the json.loads call on: data.get("cards", []) needs a
\* dict, the loop an iterable
CardsOf(data) ==
    IF data = JSONDecodeError THEN Raises("JSONDecodeError")
    ELSE IF data.t # "obj" THEN Raises("AttributeError")
    ELSE LET cards_raw == DictGet(data, <<"cards">>, JArr(<<>>))
         IN  IF cards_raw.t \in {"null", "num"} THEN Raises("TypeError")
             ELSE FilterCards(Iterate(cards_raw), <<>>)

_parse_flashcards(raw) == CardsOf(json_loads(ExtractJson(raw)))

(***************************************************************************)
(* Model replies: leading prose, a body, trailing prose.  The body is the  *)
(* JSON text of a document of JsonDocs, or no JSON at all.                 *)
(***************************************************************************)
Leads ==
    { <<>>,
      <<"Here are your flashcards:", "\n">>,
      <<"Use the format ", "{", "cards", "}", ":", " ">>,
      <<"{", " ">>,
      <<"}", " ">> }

Trails ==
    { <<>>,
      <<"\n", "Hope this helps!">>,
      <<" ", "{", "end", "}">>,
      <<" ", "{">>,
      <<" ", "}">> }

NoJson == [t |-> "none", v |-> <<>>]

BodyText(json) == IF json = NoJson THEN <<>> ELSE Serialise(json)

Replies == [lead : Leads, json : JsonDocs \cup {NoJson}, trail : Trails]

\* the string the model returned
Raw(r) == r.lead \o BodyText(r.json) \o r.trail

ParseInit ==
    /\ reply \in Replies
    /\ parse = [done |-> FALSE, out |-> Returns(<<>>)]

ParseIdle ==
    /\ reply = [lead |-> <<>>, json |-> NoJson, trail |-> <<>>]
    /\ parse = [done |-> FALSE, out |-> Returns(<<>>)]

ParseFlashcards ==
    /\ ~parse.done
    /\ parse' = [done |-> TRUE, out |-> _parse_flashcards(Raw(reply))]
    /\ UNCHANGED reply
    /\ UNCHANGED nonParseVars

ParseNext == ParseFlashcards


(***************************************************************************)
(* load_uploaded_pdf(path, doc_type): the pages PyPDFLoader returns, each  *)
(* given the doc_type unless its metadata already holds one.               *)
(***************************************************************************)
load_uploaded_pdf(pages, doc_type) ==
    [i \in 1..Len(pages) |->
        [pages[i] EXCEPT !.metadata.doc_type =
            IF @ = NoKey THEN doc_type ELSE @]]

\* the page lists PyPDFLoader may return for an upload: no page, one page
\* without text, one page of text, a page of text after one without
UploadedPdfs ==
    LET blank == [page_content |-> "",
                  metadata |-> [source |-> "/tmp/upload.pdf", doc_type |-> NoKey]]
        text  == [page_content |-> "fees and charges",
                  metadata |-> [source |-> "/tmp/upload.pdf", doc_type |-> NoKey]]
    IN  {<<>>, <<blank>>, <<text>>, <<blank, text>>}

(***************************************************************************)
(* FlashcardPipeline.generate_from_docs(documents, max_cards).  The        *)
(* outcome is [raised, cards, prompted]: prompted is the num_cards written *)
(* into the prompt, or -1 when the model was not invoked.                  *)
(***************************************************************************)
DefaultMaxCards == 20

\* max_cards or self.max_cards
NumCards(max_cards) == IF max_cards # 0 THEN max_cards ELSE DefaultMaxCards

generate_from_docs(documents, max_cards, fault, r) ==
    IF documents = <<>> THEN [raised |-> "", cards |-> <<>>, prompted |-> -1]
    ELSE IF fault = "split"
    THEN [raised |-> "CustomException", cards |-> <<>>, prompted |-> -1]
    ELSE LET chunks == split_documents(documents)
         IN  IF chunks = <<>> THEN [raised |-> "", cards |-> <<>>, prompted |-> -1]
             ELSE IF fault = "llm"
             THEN [raised |-> "APIConnectionError", cards |-> <<>>,
                   prompted |-> NumCards(max_cards)]
             ELSE [prompted |-> NumCards(max_cards)] @@ _parse_flashcards(Raw(r))

(***************************************************************************)
(* HTTP responses.  str(exc) of an exception is its message; the model     *)
(* names an exception by its type and gives every type one message.        *)
(***************************************************************************)
StrExc(exc) == <<exc, ": message">>

NoDetail == <<>>

\* Mutant of HTTPException: a fixed detail in place of the one given.
HTTPException_GenericDetail(status_code, detail) ==
    [status |-> status_code, detail |-> <<"Internal Server Error">>, body |-> <<>>]

\* raise HTTPException(status_code, detail)
HTTPException(status_code, detail) ==
    [status |-> status_code, detail |-> detail, body |-> <<>>]

\* a response_model instance returned by a handler
Success(body) == [status |-> 200, detail |-> NoDetail, body |-> body]

\* FastAPI's answer to a body that fails the request model
RequestValidationError == [status |-> 422, detail |-> <<"validation error">>, body |-> <<>>]

(***************************************************************************)
(* POST /flashcards: generate_flashcards(file, max_cards).                 *)
(*                                                                         *)
(* fault names the step that raises, if one does:                          *)
(*   "read"      await file.read()                                         *)
(*   "tempfile"  tempfile.NamedTemporaryFile(...) (no file is created)     *)
(*   "write"     tmp.write(contents) (the file exists, delete=False)       *)
(*   "load"      load_uploaded_pdf (PyPDFLoader cannot read the file)      *)
(*   "split"     create_chunks_in_memory inside generate_from_docs         *)
(*   "llm"       self.llm.invoke inside generate_from_docs                 *)
(* The outcome is [response, on_disk, created, calls, failure]: on_disk is *)
(* the set of this request's temporary files left when the handler is      *)
(* over, failure the step that raised and its exception.                   *)
(***************************************************************************)
FlashcardFaults == {"none", "read", "tempfile", "write", "load", "split", "llm"}

NoFailure == [at |-> "", exc |-> ""]

Failure(at, exc) == [at |-> at, exc |-> exc]

NoCalls == [answer_question |-> 0, load_uploaded_pdf |-> 0,
            generate_from_docs |-> 0, llm_invoke |-> 0]

\* os.remove(path)
os_remove(files, path) == files \ {path}

\* Flashcard(**card) for card in cards; FlashcardResponse(flashcards=...)
FlashcardResponse(cards) ==
    [flashcards |-> [i \in 1..Len(cards) |->
                        [question |-> cards[i].question, answer |-> cards[i].answer]]]

\* the inner try block once generate_from_docs is over with outcome gen:
\* the exception goes on, or the response is built from the cards
FlashcardsReturn(gen) ==
    LET made == [NoCalls EXCEPT !.load_uploaded_pdf = 1,
                                !.generate_from_docs = 1,
                                !.llm_invoke = IF gen.prompted = -1 THEN 0 ELSE 1]
    IN  IF gen.raised # ""
        THEN [raised |-> gen.raised, value |-> <<>>, calls |-> made]
        ELSE [raised |-> "", value |-> FlashcardResponse(gen.cards), calls |-> made]

\* the inner try block: load, generate, build the response
FlashcardsBody(max_cards, fault, pages, r) ==
    IF fault = "load"
    THEN [raised |-> "PdfReadError", value |-> <<>>,
          calls |-> [NoCalls EXCEPT !.load_uploaded_pdf = 1]]
    ELSE FlashcardsReturn(
            generate_from_docs(load_uploaded_pdf(pages, "flashcard_upload"),
                               max_cards, fault, r))

\* the finally clause and what leaves the handler, the inner try block being
\* over with outcome inner: the file is removed, then the exception is turned
\* into a 500 response or the response is returned
FlashcardsFinally(tmp_path, inner) ==
    [response |-> IF inner.raised # ""
                  THEN HTTPException(500, StrExc(inner.raised))
                  ELSE Success(inner.value),
     on_disk |-> os_remove({tmp_path}, tmp_path),
     created |-> TRUE, calls |-> inner.calls,
     failure |-> IF inner.raised = "" THEN NoFailure
                 ELSE IF inner.calls.generate_from_docs = 0
                 THEN Failure("load_uploaded_pdf", inner.raised)
                 ELSE Failure("generate_from_docs", inner.raised)]

generate_flashcards(tmp_path, max_cards, fault, pages, r) ==
    IF fault = "read"
    THEN [response |-> HTTPException(500, StrExc("ClientDisconnect")),
          on_disk |-> {}, created |-> FALSE, calls |-> NoCalls,
          failure |-> Failure("file.read", "ClientDisconnect")]
    ELSE IF fault = "tempfile"
    THEN [response |-> HTTPException(500, StrExc("OSError")),
          on_disk |-> {}, created |-> FALSE, calls |-> NoCalls,
          failure |-> Failure("NamedTemporaryFile", "OSError")]
    ELSE IF fault = "write"
    THEN [response |-> HTTPException(500, StrExc("OSError")),
          on_disk |-> {tmp_path}, created |-> TRUE, calls |-> NoCalls,
          failure |-> Failure("tmp.write", "OSError")]
    ELSE FlashcardsFinally(tmp_path, FlashcardsBody(max_cards, fault, pages, r))

\* the replies the model gives in the request specification: with or without
\* leading prose, no JSON or a cards object whose entries are a valid card or
\* a card with a null question
ServerReplies ==
    [lead  : {<<>>, <<"Here are your flashcards:", "\n">>},
     json  : {NoJson} \cup
             {JObj(<< << <<"cards">>, JArr(items)>> >>) :
                items \in SeqsUpTo(
                    { JObj(<< << <<"question">>, JStr(<<"Q">>)>>,
                              << <<"answer">>, JStr(<<"A">>)>> >>),
                      JObj(<< << <<"question">>, JNull>>,
                              << <<"answer">>, JStr(<<"A">>)>> >>) }, MaxItems)},
     trail : {<<>>}]

\* the values of the max_cards query parameter (20 is its default)
MaxCardsValues == {0, 1, 20}

(***************************************************************************)
(* POST /ask: the AskRequest model, _build_sources and ask_question.       *)
(***************************************************************************)
PreviewLength == 280

MaxSourceItems == 3

\* s[:n]
Take(s, n) == SubSeq(s, 1, IF Len(s) < n THEN Len(s) ELSE n)

\* str.replace("\n", " ")
ReplaceNewlines(s) == [i \in 1..Len(s) |-> IF s[i] = "\n" THEN " " ELSE s[i]]

\* Mutant of Preview: the newlines are left in place.
Preview_NewlinesKept(page_content) == Strip(Take(page_content, PreviewLength))

\* doc.page_content[:280].strip().replace("\n", " ")
Preview(page_content) == ReplaceNewlines(Strip(Take(page_content, PreviewLength)))

\* metadata.get(key) on (doc.metadata or {}): None for an absent key
NoneValue == "<None>"

_build_sources(docs, max_items) ==
    [i \in 1..(IF Len(docs) < max_items THEN Len(docs) ELSE max_items) |->
        [source   |-> MetadataGet(docs[i].metadata, "source", NoneValue),
         doc_type |-> MetadataGet(docs[i].metadata, "doc_type", NoneValue),
         preview  |-> Preview(docs[i].page_content)]]

\* Mutant of AskRequestValid: the question's min_length constraint left out.
AskRequestValid_NoMinLength(payload) ==
    \A i \in 1..Len(payload.history) :
        payload.history[i].role \in {"user", "assistant"}

\* AskRequest: question is a str of min_length 1, every history entry a
\* ChatMessage whose role is "user" or "assistant"
AskRequestValid(payload) ==
    /\ Len(payload.question) >= 1
    /\ \A i \in 1..Len(payload.history) :
          payload.history[i].role \in {"user", "assistant"}

\* the handler; fault = "answer_question" when the orchestrator raises
ask_question(payload, fault, answer, docs) ==
    IF fault = "answer_question"
    THEN [response |-> HTTPException(500, StrExc("PipelineError")),
          calls |-> [NoCalls EXCEPT !.answer_question = 1],
          failure |-> Failure("answer_question", "PipelineError")]
    ELSE [response |-> Success([answer |-> answer,
                                sources |-> _build_sources(docs, MaxSourceItems)]),
          calls |-> [NoCalls EXCEPT !.answer_question = 1],
          failure |-> NoFailure]

\* FastAPI: the body is validated against AskRequest before the handler runs
PostAsk(payload, fault, answer, docs) ==
    IF AskRequestValid(payload)
    THEN ask_question(payload, fault, answer, docs)
    ELSE [response |-> RequestValidationError, calls |-> NoCalls,
          failure |-> Failure("AskRequest", "ValidationError")]

\* question strings, character by character
Questions == {<<>>, <<" ">>, <<"f", "e", "e", "s", "?">>}

Histories ==
    { <<>>,
      <<[role |-> "user", content |-> "hi"], [role |-> "assistant", content |-> "hello"]>>,
      <<[role |-> "system", content |-> "be brief"]>> }

AskPayloads == [question : Questions, doc_type : {NoneValue, "product_terms"},
                history : Histories]

\* a text longer than the preview: 278 letters, then a newline, a space and
\* more letters
LongText ==
    [i \in 1..(PreviewLength + 4) |->
        IF i = PreviewLength - 1 THEN "\n" ELSE IF i = PreviewLength THEN " " ELSE "x"]

\* a text longer than the preview with a newline inside its first 280
\* characters and no whitespace around the 280th
FullText ==
    [i \in 1..(PreviewLength + 4) |-> IF i = 100 THEN "\n" ELSE "y"]

\* the supporting records the orchestrator may return: none, fewer than
\* max_items, more than max_items
RetrievedLists ==
    LET short == [page_content |-> <<" ", "a", "\n", "b", "\n">>,
                  metadata |-> [source |-> "a.pdf", doc_type |-> "product_terms"]]
        long  == [page_content |-> LongText,
                  metadata |-> [source |-> NoKey, doc_type |-> NoKey]]
        full  == [page_content |-> FullText,
                  metadata |-> [source |-> "b.pdf", doc_type |-> NoKey]]
    IN  {<<>>, <<short>>, <<long, short>>, <<short, long, short, long>>,
         <<full, short, long, full>>}

RequestInit ==
    /\ served = 0
    /\ tmp_files = {}
    /\ exchange = [kind |-> "none"]

\* one POST /flashcards request, from its arrival to its response; the
\* temporary file gets a name no other file has
GenerateFlashcards ==
    /\ served < MaxRequests
    /\ \E max_cards \in MaxCardsValues, fault \in FlashcardFaults,
          pages \in UploadedPdfs, r \in ServerReplies :
          \E out \in {generate_flashcards(served + 1, max_cards, fault, pages, r)} :
              /\ tmp_files' = tmp_files \cup out.on_disk
              /\ exchange' = [kind |-> "flashcards", max_cards |-> max_cards,
                              fault |-> fault, tmp_path |-> served + 1,
                              created |-> out.created, calls |-> out.calls,
                              failure |-> out.failure,
                              responses |-> <<out.response>>]
    /\ served' = served + 1
    /\ UNCHANGED nonRequestVars

\* one POST /ask request, from its arrival to its response
AskQuestion ==
    /\ served < MaxRequests
    /\ \E payload \in AskPayloads, fault \in {"none", "answer_question"},
          docs \in RetrievedLists :
          LET out == PostAsk(payload, fault, <<"answer">>, docs)
          IN  exchange' = [kind |-> "ask", payload |-> payload, docs |-> docs,
                           fault |-> fault, calls |-> out.calls,
                           failure |-> out.failure,
                           responses |-> <<out.response>>]
    /\ served' = served + 1
    /\ UNCHANGED <<tmp_files>>
    /\ UNCHANGED nonRequestVars

RequestNext == GenerateFlashcards \/ AskQuestion


(***************************************************************************)
(* The process.  get_pipeline and get_flashcard_pipeline are zero-argument *)
(* functions under functools.lru_cache(maxsize=1): a call looks the cache  *)
(* up; on a miss it calls the constructor and then stores the result,      *)
(* unless the cache was filled in the meantime, and returns its own result *)
(* either way.  Between the lookup, the constructor call and the store     *)
(* other threads may run.                                                  *)
(*                                                                         *)
(* The startup hook warm_pipeline runs to its end before the server        *)
(* handles any request; if it raises, the process exits.  /ask is a def    *)
(* handler and runs in a worker thread; /flashcards is an async def        *)
(* handler and runs on the event loop, where its call of                   *)
(* get_flashcard_pipeline is not interleaved with other handlers.          *)
(***************************************************************************)
NoInstance == 0

Threads == 1..MaxThreads

\* Mutant of warm_pipeline: the hook warms the flashcard pipeline only.
warm_pipeline_FlashcardsOnly == <<"fc">>

\* warm_pipeline: the cached functions the hook calls, in order
warm_pipeline == <<"rag", "fc">>

\* a whole cached call, run without interleaving: [cache, built, result]
CachedCall(key) ==
    IF cache[key] # NoInstance
    THEN [cache |-> cache, built |-> built, result |-> cache[key]]
    ELSE [cache  |-> [cache EXCEPT ![key] = built[key] + 1],
          built  |-> [built EXCEPT ![key] = @ + 1],
          result |-> built[key] + 1]

IdleThread == [kind |-> "none", pc |-> "idle", mine |-> NoInstance, pipeline |-> NoInstance]

ServerInit ==
    /\ startup = [phase |-> "warming", next |-> 1]
    /\ cache = [rag |-> NoInstance, fc |-> NoInstance]
    /\ built = [rag |-> 0, fc |-> 0]
    /\ threads = [t \in Threads |-> IdleThread]

\* the startup hook makes its next call, or is over and the server serves
Startup ==
    /\ startup.phase = "warming"
    /\ IF startup.next <= Len(warm_pipeline)
       THEN LET call == CachedCall(warm_pipeline[startup.next])
            IN  /\ cache' = call.cache
                /\ built' = call.built
                /\ startup' = [startup EXCEPT !.next = @ + 1]
       ELSE /\ startup' = [startup EXCEPT !.phase = "serving"]
            /\ UNCHANGED <<cache, built>>
    /\ UNCHANGED threads
    /\ UNCHANGED nonServerVars

\* a constructor raises inside the startup hook: the process exits
StartupFails ==
    /\ startup.phase = "warming"
    /\ startup.next <= Len(warm_pipeline)
    /\ startup' = [startup EXCEPT !.phase = "failed"]
    /\ UNCHANGED <<cache, built, threads>>
    /\ UNCHANGED nonServerVars

\* a request arrives and its handler starts
Arrive(t, kind) ==
    /\ startup.phase = "serving"
    /\ threads[t].pc = "idle"
    /\ threads' = [threads EXCEPT ![t] = [IdleThread EXCEPT !.kind = kind, !.pc = "lookup"]]
    /\ UNCHANGED <<startup, cache, built>>
    /\ UNCHANGED nonServerVars

\* ask_question: pipeline = get_pipeline(), step by step in a worker thread
AskGetPipeline(t) ==
    /\ threads[t].kind = "ask"
    /\ threads[t].pc \in {"lookup", "construct", "store"}
    /\ CASE threads[t].pc = "lookup" ->
              /\ threads' = [threads EXCEPT ![t] =
                    IF cache.rag # NoInstance
                    THEN [@ EXCEPT !.pipeline = cache.rag, !.pc = "handle"]
                    ELSE [@ EXCEPT !.pc = "construct"]]
              /\ UNCHANGED <<cache, built>>
         [] threads[t].pc = "construct" ->
              /\ built' = [built EXCEPT !.rag = @ + 1]
              /\ threads' = [threads EXCEPT ![t] =
                    [@ EXCEPT !.mine = built.rag + 1, !.pc = "store"]]
              /\ UNCHANGED cache
         [] threads[t].pc = "store" ->
              /\ cache' = IF cache.rag = NoInstance
                          THEN [cache EXCEPT !.rag = threads[t].mine]
                          ELSE cache
              /\ threads' = [threads EXCEPT ![t] =
                    [@ EXCEPT !.pipeline = threads[t].mine, !.pc = "handle"]]
              /\ UNCHANGED built
    /\ UNCHANGED startup
    /\ UNCHANGED nonServerVars

\* generate_flashcards: flashcard_pipeline = get_flashcard_pipeline(), on the
\* event loop
FlashcardsGetPipeline(t) ==
    /\ threads[t].kind = "flashcards"
    /\ threads[t].pc = "lookup"
    /\ LET call == CachedCall("fc")
       IN  /\ cache' = call.cache
           /\ built' = call.built
           /\ threads' = [threads EXCEPT ![t] =
                 [@ EXCEPT !.pipeline = call.result, !.pc = "handle"]]
    /\ UNCHANGED startup
    /\ UNCHANGED nonServerVars

\* the rest of the handler, which uses the pipeline it got
Handle(t) ==
    /\ threads[t].pc = "handle"
    /\ threads' = [threads EXCEPT ![t] = [@ EXCEPT !.pc = "done"]]
    /\ UNCHANGED <<startup, cache, built>>
    /\ UNCHANGED nonServerVars

ServerNext ==
    \/ Startup
    \/ StartupFails
    \/ \E t \in Threads, kind \in {"ask", "flashcards"} : Arrive(t, kind)
    \/ \E t \in Threads : AskGetPipeline(t)
    \/ \E t \in Threads : FlashcardsGetPipeline(t)
    \/ \E t \in Threads : Handle(t)

ServerKey(kind) == IF kind = "ask" THEN "rag" ELSE "fc"

(***************************************************************************)
(* The chat client (gradio_ui.py).                                         *)
(*                                                                         *)
(* A history entry is a dict, [t |-> "dict", role, has_content, content]   *)
(* (role NoneValue for a missing role, has_content FALSE for a missing or  *)
(* None content), a two-element list or tuple, [t |-> "pair", user, bot],  *)
(* or anything else, [t |-> "other"].  Texts are sequences of pieces.      *)
(***************************************************************************)
\* the dict {"role": role, "content": content}
Message(role, content) ==
    [t |-> "dict", role |-> role, has_content |-> TRUE, content |-> content]

\* the messages one history entry contributes
EntryMessages(entry) ==
    CASE entry.t = "dict" ->
            IF entry.role \notin {NoneValue, ""} /\ entry.has_content
            THEN <<Message(entry.role, entry.content)>>
            ELSE <<>>
      [] entry.t = "pair" ->
            (IF entry.user # <<>> THEN <<Message("user", entry.user)>> ELSE <<>>)
            \o (IF entry.bot # <<>> THEN <<Message("assistant", entry.bot)>> ELSE <<>>)
      [] OTHER -> <<>>

_history_to_messages(history) ==
    Flatten([i \in 1..Len(history) |-> EntryMessages(history[i])])

\* "\n".join(lines)
RECURSIVE JoinLines(_)
JoinLines(lines) ==
    IF lines = <<>> THEN <<>>
    ELSE IF Len(lines) = 1 THEN lines[1]
    ELSE lines[1] \o <<"\n">> \o JoinLines(Tail(lines))

\* f"{idx}. {doc_label} :: {source_name}"
SourceLine(idx, src) ==
    << ToString(idx), ". ",
       IF src.doc_type \in {NoneValue, ""} THEN "document" ELSE src.doc_type,
       " :: ",
       IF src.source \in {NoneValue, ""} THEN "N/A" ELSE src.source >>

_format_answer(response) ==
    JoinLines(<<Strip(response.answer)>>
              \o (IF response.sources # <<>>
                  THEN <<<<>>, <<"Sources:">>>>
                       \o [i \in 1..Len(response.sources) |->
                              SourceLine(i, response.sources[i])]
                  ELSE <<>>))

\* f"Error talking to API: {exc}"
ErrorAnswer(exc) == <<"Error talking to API: ", exc>>

\* what the network does to a request: it cannot connect, it delivers the
\* request and garbles the response body, or it delivers both
ApiStates == {"connect_error", "garbled_body", "up"}

\* the try block: POST /ask, raise_for_status, AskResponse(**resp.json()),
\* _format_answer; resp is the response of the /ask handler
TryAsk(api, resp) ==
    IF api = "connect_error" THEN ErrorAnswer("ConnectError")
    ELSE IF resp.status # 200 THEN ErrorAnswer("HTTPStatusError")
    ELSE IF api = "garbled_body" THEN ErrorAnswer("JSONDecodeError")
    ELSE _format_answer(resp.body)

\* AskRequest(question=message, doc_type=doc_type or None, history=...)
\* .model_dump()
ChatPayload(message, history, doc_type) ==
    [question |-> message,
     doc_type |-> IF doc_type = "" THEN NoneValue ELSE doc_type,
     history  |-> _history_to_messages(history)]

\* _chat_response(message, history, doc_type, api_url); fault, answer and docs
\* are what the server does with the request if it arrives.  The outcome is
\* [raised, value, posts]: the exception leaving the function, the list it
\* returns, the number of POST requests it sent.
_chat_response(message, history, doc_type, api, fault, answer, docs) ==
    IF ~AskRequestValid(ChatPayload(message, history, doc_type))
    THEN [raised |-> "ValidationError", value |-> <<>>, posts |-> 0]
    ELSE [raised |-> "",
          value  |-> _history_to_messages(history)
                     \o << Message("user", message),
                           Message("assistant",
                               TryAsk(api, PostAsk(ChatPayload(message, history, doc_type),
                                                   fault, answer, docs).response)) >>,
          posts  |-> 1]

\* the conversations the chatbot may hold when the first message is
\* submitted: none, one in the legacy pair format, one with entries that
\* _history_to_messages skips
InitialHistories ==
    { <<>>,
      << [t |-> "pair", user |-> <<"h", "i">>, bot |-> <<"hello">>] >>,
      << Message("user", <<"h", "i">>),
         [t |-> "dict", role |-> "assistant", has_content |-> FALSE, content |-> <<>>],
         [t |-> "pair", user |-> <<>>, bot |-> <<"welcome">>],
         [t |-> "other"] >> }

ClientIdle ==
    /\ chatbot = <<>>
    /\ turns = 0
    /\ chat = [called |-> FALSE]

ClientInit ==
    /\ chatbot \in InitialHistories
    /\ turns = 0
    /\ chat = [called |-> FALSE]

\* question.submit: _respond calls _chat_response with the textbox and the
\* chatbot value; the chatbot takes the returned list, and keeps its value
\* when the call raises
Respond ==
    /\ turns < MaxTurns
    /\ \E message \in Questions, doc_type \in {"", "product_terms"},
          api \in ApiStates, fault \in {"none", "answer_question"},
          docs \in {d \in RetrievedLists : Len(d) <= 2} :
          \E out \in {_chat_response(message, chatbot, doc_type, api, fault,
                                     <<" ", "answer">>, docs)} :
              /\ chatbot' = IF out.raised # "" THEN chatbot ELSE out.value
              /\ chat' = [called |-> TRUE, message |-> message,
                          history |-> chatbot, api |-> api, fault |-> fault,
                          raised |-> out.raised, value |-> out.value,
                          posts |-> out.posts]
    /\ turns' = turns + 1
    /\ UNCHANGED nonClientVars

\* clear_btn.click: the conversation is emptied
ClearConversation ==
    /\ chatbot # <<>>
    /\ chatbot' = <<>>
    /\ UNCHANGED <<turns, chat>>
    /\ UNCHANGED nonClientVars

ClientNext == Respond \/ ClearConversation

(***************************************************************************)
(* Claims on the parser (SpecParse).                                       *)
(***************************************************************************)
Has(s, c) == \E i \in 1..Len(s) : s[i] = c

\* the entries of the cards list of a reply whose body is a cards object
ItemsOf(r) == r.json.v[1][2].v

\* the trimmed value an entry holds under a key; an entry that is no dict, that
\* lacks the key or holds a value that is no string has none
Trimmed(item, key) ==
    IF item.t = "obj" /\ \E i \in 1..Len(item.v) : item.v[i][1] = key /\ item.v[i][2].t = "str"
    THEN Strip(item.v[CHOOSE i \in 1..Len(item.v) : item.v[i][1] = key][2].v)
    ELSE <<>>

\* the entries with a non-empty trimmed question and answer, in order
RECURSIVE ValidCards(_)
ValidCards(items) ==
    IF items = <<>> THEN <<>>
    ELSE (IF Trimmed(Head(items), <<"question">>) # <<>>
             /\ Trimmed(Head(items), <<"answer">>) # <<>>
          THEN <<[question |-> Trimmed(Head(items), <<"question">>),
                  answer   |-> Trimmed(Head(items), <<"answer">>)]>>
          ELSE <<>>)
         \o ValidCards(Tail(items))

\* every entry is a dict whose values are strings
StringValued(items) ==
    \A i \in 1..Len(items) :
        items[i].t = "obj" /\ \A j \in 1..Len(items[i].v) : items[i].v[j][2].t = "str"

\* C5 as claimed (its consequence): a reply made of leading prose, one valid
\* JSON object {"cards": [...]} with string-valued entries, and trailing prose
\* yields exactly the valid cards of that object, whatever the prose.
C5_ProseNeverBreaksParsing ==
    (parse.done /\ reply.json \in CardsObjects /\ StringValued(ItemsOf(reply))) =>
        parse.out = Returns(ValidCards(ItemsOf(reply)))

\* C5 as amended: the text parsed is the substring from the first "{" to the
\* last "}" inclusive when both exist with the last after the first, else the
\* raw reply; so a reply made of leading prose without "{", one JSON object
\* {"cards": [...]} and trailing prose without "}" is parsed as the object
\* alone, and yields its valid cards when its entries are string-valued.
C5_FirstToLastBrace ==
    parse.done =>
        LET raw    == Raw(reply)
            opens  == {i \in 1..Len(raw) : raw[i] = "{"}
            closes == {i \in 1..Len(raw) : raw[i] = "}"}
            first  == CHOOSE i \in opens : \A j \in opens : i <= j
            last   == CHOOSE i \in closes : \A j \in closes : j <= i
        IN  /\ IF opens # {} /\ closes # {} /\ last > first
               THEN parse.out = CardsOf(json_loads(SubSeq(raw, first, last)))
               ELSE parse.out = CardsOf(json_loads(raw))
            /\ ( /\ reply.json \in CardsObjects
                 /\ ~Has(reply.lead, "{")
                 /\ ~Has(reply.trail, "}") ) =>
                    /\ parse.out = CardsOf(reply.json)
                    /\ StringValued(ItemsOf(reply)) =>
                          parse.out = Returns(ValidCards(ItemsOf(reply)))

\* C5 witness: prose on both sides, a closing brace before the object and an
\* opening brace after it, and two cards parsed out of the object.
C5_Witness ==
    /\ parse.done
    /\ reply.json \in CardsObjects
    /\ Has(reply.lead, "}")
    /\ Has(reply.trail, "{")
    /\ StringValued(ItemsOf(reply))
    /\ parse.out.raised = ""
    /\ Len(parse.out.cards) = 2

\* C6: for every cards list (here: a reply that is the bare JSON object), the
\* parser returns, in order, exactly the entries whose trimmed question and
\* answer are both non-empty, and drops every other entry (missing key, blank
\* value, null or non-string value) without raising.
C6_MalformedEntriesDropped ==
    (parse.done /\ reply.json \in CardsObjects /\ reply.lead = <<>> /\ reply.trail = <<>>) =>
        parse.out = Returns(ValidCards(ItemsOf(reply)))



(***************************************************************************)
(* Claims on the chunker (SpecChunk).                                      *)
(***************************************************************************)
\* the rows of a snapshot file: its lines after the header line
Rows(file) == IF file.lines = <<>> THEN <<>> ELSE Tail(file.lines)

\* the (text, source, doc_type) values of a chunk; a metadata key the chunk
\* does not hold counts as the empty string
ChunkValues(chunk) ==
    <<chunk.page_content,
      IF chunk.metadata.source = NoKey THEN "" ELSE chunk.metadata.source,
      IF chunk.metadata.doc_type = NoKey THEN "" ELSE chunk.metadata.doc_type>>

ValuesOf(chunks) == [i \in 1..Len(chunks) |-> ChunkValues(chunks[i])]

CreateChunksReturned == ret.op = "create_chunks" /\ ~ret.raised

\* C2: after every create_chunks run that returned, whatever the document list
\* (empty, non-empty, non-empty but yielding no chunk), the snapshot file exists
\* and its first line is the header text,source,doc_type.
C2_HeaderAlwaysPresent ==
    CreateChunksReturned =>
        /\ chunks_file.exists
        /\ chunks_file.lines # <<>>
        /\ Head(chunks_file.lines) = <<"text", "source", "doc_type">>

\* C3: create_chunks called with an empty document list and returning leaves a
\* snapshot that holds the header line text,source,doc_type and nothing else,
\* whatever the file held before, and returns the snapshot path with an empty
\* chunk list.
C3_EmptyInputWritesHeaderOnly ==
    (CreateChunksReturned /\ ret.no_documents) =>
        /\ chunks_dir
        /\ chunks_file = File(<< <<"text", "source", "doc_type">> >>)
        /\ ret.value = <<ChunksFilePath, <<>>>>

\* C3 witness: an empty-input create_chunks has returned after an earlier run
\* had returned (the file it overwrote existed).
C3_Witness ==
    /\ CreateChunksReturned
    /\ ret.no_documents
    /\ lastGood.has
    /\ chunks_file.exists
    /\ Len(chunks_file.lines) = 1

\* C4 as claimed: after any sequence of calls the snapshot's rows are the
\* (text, source, doc_type) values of the chunk list returned by the most
\* recent create_chunks call that returned normally, in order.
C4_RowsOfLastSuccessfulRun ==
    lastGood.has =>
        /\ chunks_file.exists
        /\ Rows(chunks_file) = ValuesOf(lastGood.chunks)

\* C4 as amended: the same, as long as no later create_chunks call failed while
\* it was writing the file (such a call leaves the file truncated); and a
\* create_chunks_in_memory step changes neither the file nor the directory.
C4_RowsOfLastCompletedWrite ==
    /\ [](( lastGood.has /\ ~lastGood.torn) =>
            /\ chunks_file.exists
            /\ Rows(chunks_file) = ValuesOf(lastGood.chunks)
            /\ Len(chunks_file.lines) = Len(lastGood.chunks) + 1)
    /\ [][ret'.op = "create_chunks_in_memory" =>
            UNCHANGED <<chunks_dir, chunks_file>>]_vars

\* C4 witness: an in-memory call has run after a create_chunks that wrote three
\* rows from two documents; the rows are still those three.
C4_Witness ==
    /\ ret.op = "create_chunks_in_memory"
    /\ ~ret.raised
    /\ ret.value # <<>>
    /\ lastGood.has
    /\ ~lastGood.torn
    /\ Len(lastGood.chunks) = 3
    /\ ret.value # lastGood.chunks
    /\ Len(chunks_file.lines) = 4

(***************************************************************************)
(* Claims on the request handlers (SpecRequest).                           *)
(***************************************************************************)
\* C1: once generate_flashcards has returned or raised, on whatever path, the
\* temporary file created for the request is no longer on disk.
C1_TempFileRemoved ==
    (exchange.kind = "flashcards" /\ exchange.created) =>
        exchange.tmp_path \notin tmp_files

\* C7: a successful /flashcards response to a request with max_cards = n holds
\* at most n flashcards, whatever the model returned (stated for n >= 1; for
\* n = 0 the prompt asks for the default number of cards).
C7_AtMostMaxCards ==
    ( /\ exchange.kind = "flashcards"
      /\ exchange.max_cards >= 1
      /\ exchange.responses[1].status = 200 ) =>
        Len(exchange.responses[1].body.flashcards) <= exchange.max_cards

\* C8: an /ask request whose question is empty is answered by the validation
\* failure (422, not 500) and answer_question is not called for it.
C8_EmptyQuestionRejected ==
    (exchange.kind = "ask" /\ exchange.payload.question = <<>>) =>
        /\ exchange.calls.answer_question = 0
        /\ Len(exchange.responses) = 1
        /\ exchange.responses[1].status = 422
        /\ exchange.responses[1].status # 500

\* C8 witness: an empty question arrived with an otherwise valid body while
\* the orchestrator would have raised, and the answer was 422.
C8_Witness ==
    /\ exchange.kind = "ask"
    /\ exchange.payload.question = <<>>
    /\ exchange.payload.history = <<>>
    /\ exchange.fault = "answer_question"
    /\ exchange.responses[1].status = 422

\* C9: when a collaborator raised during a request (answer_question for /ask,
\* load_uploaded_pdf or generate_from_docs for /flashcards), it was invoked
\* exactly once for that request and the request ended with one response, a
\* 500 whose detail is the message of the exception raised.
C9_FailureOnceAnd500 ==
    exchange.kind \in {"ask", "flashcards"} =>
        (exchange.failure.at \in {"answer_question", "load_uploaded_pdf",
                                  "generate_from_docs"} =>
            /\ exchange.calls[exchange.failure.at] = 1
            /\ exchange.calls.llm_invoke <= 1
            /\ Len(exchange.responses) = 1
            /\ exchange.responses[1].status = 500
            /\ exchange.responses[1].detail = <<exchange.failure.exc, ": message">>)

\* C9 witness: the model call inside generate_from_docs raised; one call was
\* made and the response is the 500.
C9_Witness ==
    /\ exchange.kind = "flashcards"
    /\ exchange.fault = "llm"
    /\ exchange.failure.at = "generate_from_docs"
    /\ exchange.calls.llm_invoke = 1
    /\ exchange.responses[1].status = 500

\* C11: a successful /ask response carries at most 3 source summaries, one
\* for each of the first 3 supporting records in the order the orchestrator
\* returned them; each has the record's source and doc_type (None when the
\* record has none) and a preview of at most 280 characters without a newline
\* character.
C11_SourceSummaries ==
    (exchange.kind = "ask" /\ exchange.responses[1].status = 200) =>
        LET sources == exchange.responses[1].body.sources
            docs    == exchange.docs
        IN  /\ Len(sources) <= 3
            /\ Len(sources) = (IF Len(docs) < 3 THEN Len(docs) ELSE 3)
            /\ \A i \in 1..Len(sources) :
                  /\ sources[i].source =
                        (IF docs[i].metadata.source = NoKey
                         THEN NoneValue ELSE docs[i].metadata.source)
                  /\ sources[i].doc_type =
                        (IF docs[i].metadata.doc_type = NoKey
                         THEN NoneValue ELSE docs[i].metadata.doc_type)
                  /\ Len(sources[i].preview) <= 280
                  /\ \A k \in 1..Len(sources[i].preview) :
                        sources[i].preview[k] # "\n"

\* C11 witness: four records came back, the first with more than 280
\* characters and a newline among them, the second short with newlines, the
\* third without source; the response holds three summaries, the first
\* preview 280 characters long.
C11_Witness ==
    /\ exchange.kind = "ask"
    /\ exchange.responses[1].status = 200
    /\ Len(exchange.docs) = 4
    /\ Len(exchange.docs[1].page_content) > 280
    /\ exchange.docs[1].page_content[100] = "\n"
    /\ Len(exchange.responses[1].body.sources) = 3
    /\ Len(exchange.responses[1].body.sources[1].preview) = 280
    /\ exchange.responses[1].body.sources[1].preview[100] = " "
    /\ exchange.responses[1].body.sources[2].preview = <<"a", " ", "b">>
    /\ exchange.responses[1].body.sources[3].source = NoneValue

(***************************************************************************)
(* Claims on the process (SpecServer).                                     *)
(***************************************************************************)
\* C10: in every interleaving of the startup hook and the requests, at most
\* one RAGPipeline and at most one FlashcardPipeline are constructed, and
\* every request that got a pipeline got that one instance, the cached one.
C10_SingletonPerProcess ==
    /\ built.rag <= 1
    /\ built.fc <= 1
    /\ \A t \in Threads :
          threads[t].pipeline # NoInstance =>
              /\ threads[t].pipeline = cache[ServerKey(threads[t].kind)]
              /\ \A u \in Threads :
                    (threads[u].kind = threads[t].kind
                        /\ threads[u].pipeline # NoInstance) =>
                            threads[u].pipeline = threads[t].pipeline

\* C10 witness: two /ask requests are in their handlers at once beside a
\* /flashcards request, each holding its pipeline.
C10_Witness ==
    /\ threads[1].kind = "ask" /\ threads[1].pc = "handle"
    /\ threads[2].kind = "ask" /\ threads[2].pc = "handle"
    /\ threads[3].kind = "flashcards" /\ threads[3].pc = "handle"
    /\ \A t \in 1..3 : threads[t].pipeline # NoInstance
    /\ built = [rag |-> 1, fc |-> 1]

(***************************************************************************)
(* Claims on the chat client (SpecClient).                                 *)
(***************************************************************************)
\* the call to the API failed: the request was invalid, the connection
\* failed, the status was not 2xx or the body could not be parsed
ChatFailed ==
    \/ chat.raised # ""
    \/ chat.message = <<>>
    \/ /\ Len(chat.value) >= 1
       /\ Len(chat.value[Len(chat.value)].content) >= 1
       /\ chat.value[Len(chat.value)].content[1] = "Error talking to API: "

\* C12: for every user message, the empty one included, and every failure
\* while calling the API, _chat_response does not raise and returns the
\* prior history, oldest first, then the user message, then an assistant
\* message that carries the error text.
C12_ErrorsRenderedInline ==
    (chat.called /\ ChatFailed) =>
        /\ chat.raised = ""
        /\ Len(chat.value) = Len(_history_to_messages(chat.history)) + 2
        /\ SubSeq(chat.value, 1, Len(chat.value) - 2) = _history_to_messages(chat.history)
        /\ chat.value[Len(chat.value) - 1] = Message("user", chat.message)
        /\ chat.value[Len(chat.value)].role = "assistant"
        /\ chat.value[Len(chat.value)].content[1] = "Error talking to API: "

(***************************************************************************)
(* The specifications.  Each starts every subsystem in its initial state   *)
(* and runs the actions of one.                                            *)
(***************************************************************************)
Init == ChunkInit /\ ParseIdle /\ RequestInit /\ ServerInit /\ ClientIdle

InitParse == ChunkInit /\ ParseInit /\ RequestInit /\ ServerInit /\ ClientIdle

InitClient == ChunkInit /\ ParseIdle /\ RequestInit /\ ServerInit /\ ClientInit

SpecChunk == Init /\ [][ChunkNext]_vars

SpecParse == InitParse /\ [][ParseNext]_vars

SpecRequest == Init /\ [][RequestNext]_vars

SpecServer == Init /\ [][ServerNext]_vars

SpecClient == InitClient /\ [][ClientNext]_vars

====
